---- MODULE Spec2Model ----
(***************************************************************************)
(* Users CRUD service: the relational controller (validation, conflict and *)
(* existence protocol), the user repository and the query facade, over the *)
(* users table created by database/init.js.                                *)
(*                                                                         *)
(* Strings are sequences of one-character strings, so that trim,           *)
(* toLowerCase, the e-mail pattern and Number() are computed, not assumed. *)
(* A JavaScript number v is held as the integer 10*v (one decimal digit),  *)
(* with NaN as a flag, so that a non-integer age can be told from an       *)
(* integer one.                                                            *)
(***************************************************************************)
EXTENDS Integers, Sequences, FiniteSets

(***************************************************************************)
(* Characters and strings                                                  *)
(***************************************************************************)
UpperAlpha == <<"A","B","C","D","E","F","G","H","I","J","K","L","M",
                "N","O","P","Q","R","S","T","U","V","W","X","Y","Z">>
LowerAlpha == <<"a","b","c","d","e","f","g","h","i","j","k","l","m",
                "n","o","p","q","r","s","t","u","v","w","x","y","z">>
DigitChars == <<"0","1","2","3","4","5","6","7","8","9">>

IsSpace(c) == c = " "

IsDigit(c) == \E i \in 1..10 : DigitChars[i] = c

DigitVal(c) == (CHOOSE i \in 1..10 : DigitChars[i] = c) - 1

LowerChar(c) ==
    IF \E i \in 1..26 : UpperAlpha[i] = c
    THEN LowerAlpha[CHOOSE i \in 1..26 : UpperAlpha[i] = c]
    ELSE c

\* String.prototype.toLowerCase
ToLowerCase(s) == [i \in 1..Len(s) |-> LowerChar(s[i])]

\* String.prototype.trim
Trim(s) ==
    IF \A i \in 1..Len(s) : IsSpace(s[i]) THEN <<>>
    ELSE SubSeq(s,
                CHOOSE i \in 1..Len(s) : ~IsSpace(s[i]) /\ \A j \in 1..(i - 1) : IsSpace(s[j]),
                CHOOSE i \in 1..Len(s) : ~IsSpace(s[i]) /\ \A j \in (i + 1)..Len(s) : IsSpace(s[j]))

\* decimal digits of a natural number
RECURSIVE NatDigits(_)
NatDigits(n) ==
    IF n < 10 THEN <<DigitChars[n + 1]>>
    ELSE NatDigits(n \div 10) \o <<DigitChars[(n % 10) + 1]>>

\* value of a non-empty sequence of digits
RECURSIVE DigitsVal(_)
DigitsVal(s) ==
    IF s = <<>> THEN 0
    ELSE 10 * DigitsVal(SubSeq(s, 1, Len(s) - 1)) + DigitVal(s[Len(s)])

AllDigits(s) == \A i \in 1..Len(s) : IsDigit(s[i])

(***************************************************************************)
(* JSON / JavaScript values of a request body                              *)
(***************************************************************************)
Undefined == [t |-> "undefined", s |-> <<>>, x10 |-> 0, nan |-> FALSE, b |-> FALSE]
Null      == [t |-> "null",      s |-> <<>>, x10 |-> 0, nan |-> FALSE, b |-> FALSE]
Str(s)    == [t |-> "string",    s |-> s,    x10 |-> 0, nan |-> FALSE, b |-> FALSE]
Num10(k)  == [t |-> "number",    s |-> <<>>, x10 |-> k, nan |-> FALSE, b |-> FALSE]
Num(n)    == Num10(10 * n)
NaN       == [t |-> "number",    s |-> <<>>, x10 |-> 0, nan |-> TRUE,  b |-> FALSE]
Bool(b)   == [t |-> "boolean",   s |-> <<>>, x10 |-> 0, nan |-> FALSE, b |-> b]

\* ToBoolean, as applied by `!x` and `x && ...`
Truthy(v) ==
    CASE v.t = "string"  -> v.s # <<>>
      [] v.t = "number"  -> ~v.nan /\ v.x10 # 0
      [] v.t = "boolean" -> v.b
      [] OTHER           -> FALSE

\* Number.prototype.toString for a value held in tenths
NumToString(k) ==
    LET a    == IF k < 0 THEN 0 - k ELSE k
        sign == IF k < 0 THEN <<"-">> ELSE <<>>
        frac == IF a % 10 = 0 THEN <<>> ELSE <<".", DigitChars[(a % 10) + 1]>>
    IN  sign \o NatDigits(a \div 10) \o frac

\* ToString: x.toString() and the coercion done by RegExp.prototype.test
JsToString(v) ==
    CASE v.t = "string"    -> v.s
      [] v.t = "number"    -> IF v.nan THEN <<"N","a","N">> ELSE NumToString(v.x10)
      [] v.t = "boolean"   -> IF v.b THEN <<"t","r","u","e">> ELSE <<"f","a","l","s","e">>
      [] v.t = "null"      -> <<"n","u","l","l">>
      [] OTHER             -> <<"u","n","d","e","f","i","n","e","d">>

\* the digits before and after the decimal point at position p of u
\* (p = Len(u) + 1 when u has none): a number in tenths, or NaN
ParseUnsigned(u, p, neg) ==
    LET ip == SubSeq(u, 1, p - 1)
        fp == SubSeq(u, p + 1, Len(u))
    IN  IF AllDigits(ip) /\ AllDigits(fp) /\ Len(ip) + Len(fp) > 0
        THEN Num10((IF neg THEN 0 - 1 ELSE 1) *
                   (10 * DigitsVal(ip) + (IF fp = <<>> THEN 0 ELSE DigitVal(fp[1]))))
        ELSE NaN

FirstDot(u) ==
    IF \E i \in 1..Len(u) : u[i] = "."
    THEN CHOOSE i \in 1..Len(u) : u[i] = "." /\ \A j \in 1..(i - 1) : u[j] # "."
    ELSE Len(u) + 1

ParseSigned(u, neg) == ParseUnsigned(u, FirstDot(u), neg)

ParseTrimmed(t) ==
    IF t = <<>> THEN Num10(0)
    ELSE IF t[1] = "-" \/ t[1] = "+" THEN ParseSigned(Tail(t), t[1] = "-")
    ELSE ParseSigned(t, FALSE)

\* StringToNumber for the numeric literals the alphabet can spell:
\* [sign] digits [. digits] and [sign] . digits, surrounded by white space;
\* the empty string is 0 and anything else is NaN.  Fractional digits after
\* the first are dropped (the candidates carry at most one).
StringToNumber(s) == ParseTrimmed(Trim(s))

\* Number(x)
ToNumber(v) ==
    CASE v.t = "string"  -> StringToNumber(v.s)
      [] v.t = "number"  -> v
      [] v.t = "boolean" -> Num10(IF v.b THEN 10 ELSE 0)
      [] v.t = "null"    -> Num10(0)
      [] OTHER           -> NaN

(***************************************************************************)
(* Validator (controller)                                                  *)
(***************************************************************************)
Fields == <<"name", "email", "phone", "city", "gender", "age">>

FieldSet == {Fields[i] : i \in 1..Len(Fields)}

Genders == { <<"m","a","l","e">>, <<"f","e","m","a","l","e">>, <<"o","t","h","e","r">> }

MinAge == 0
MaxAge == 150

\* /^[^\s@]+@[^\s@]+\.[^\s@]+$/.test(email)
MatchesEmailPattern(s) ==
    /\ \A i \in 1..Len(s) : ~IsSpace(s[i])
    /\ \E a \in 2..Len(s) :
          /\ s[a] = "@"
          /\ \A i \in 1..Len(s) : s[i] = "@" => i = a
          /\ \E d \in (a + 2)..(Len(s) - 1) : s[d] = "."

isValidEmail(email) == MatchesEmailPattern(JsToString(email))

\* the required-field loop: one message per falsy or blank field, in order
RequiredErrors(userData) ==
    LET missing(f) == \/ ~Truthy(userData[f])
                      \/ Trim(JsToString(userData[f])) = <<>>
        message(f) == f \o " is required"
        F[i \in 0..Len(Fields)] ==
            IF i = 0 THEN <<>>
            ELSE F[i - 1] \o (IF missing(Fields[i]) THEN <<message(Fields[i])>> ELSE <<>>)
    IN  F[Len(Fields)]

EmailErrors(userData) ==
    IF Truthy(userData["email"]) /\ ~isValidEmail(userData["email"])
    THEN <<"Invalid email format">> ELSE <<>>

\* isNaN(age) || age < 0 || age > 150
AgeOutOfRange(age) == age.nan \/ age.x10 < 10 * MinAge \/ age.x10 > 10 * MaxAge

AgeErrors(userData) ==
    IF userData["age"].t # "undefined" /\ AgeOutOfRange(ToNumber(userData["age"]))
    THEN <<"Age must be a valid number between 0 and 150">> ELSE <<>>

\* userData.gender.toLowerCase is not a function unless gender is a string
GenderThrows(userData) ==
    Truthy(userData["gender"]) /\ userData["gender"].t # "string"

GenderErrors(userData) ==
    IF Truthy(userData["gender"]) /\ ToLowerCase(userData["gender"].s) \notin Genders
    THEN <<"Gender must be male, female, or other">> ELSE <<>>

ValidationResult(errors) ==
    [threw |-> FALSE, isValid |-> errors = <<>>, errors |-> errors]

\* validateUserData: {isValid, errors}, or a TypeError
validateUserData(userData) ==
    IF GenderThrows(userData)
    THEN [threw |-> TRUE, isValid |-> FALSE, errors |-> <<>>]
    ELSE ValidationResult(RequiredErrors(userData) \o EmailErrors(userData)
                          \o AgeErrors(userData) \o GenderErrors(userData))

\* createUser / updateUserById call .trim() on name, phone, city and
\* .toLowerCase() on email, gender: a TypeError unless each is a string
NormalizeThrows(userData) ==
    \E f \in {"name", "email", "phone", "city", "gender"} : userData[f].t # "string"

\* the lookup key without toLowerCase()
NormalizedEmail_CaseKept(userData) == Trim(userData["email"].s)

\* userData.email.toLowerCase().trim()
NormalizedEmail(userData) == Trim(ToLowerCase(userData["email"].s))

\* the object literal built from a validated body (age in tenths)
NormalizedData(userData) ==
    [name   |-> Trim(userData["name"].s),
     email  |-> NormalizedEmail(userData),
     phone  |-> Trim(userData["phone"].s),
     city   |-> Trim(userData["city"].s),
     gender |-> ToLowerCase(userData["gender"].s),
     age    |-> ToNumber(userData["age"]).x10]

NoData == [name |-> <<>>, email |-> <<>>, phone |-> <<>>, city |-> <<>>,
           gender |-> <<>>, age |-> 0]

(***************************************************************************)
(* The users table (database/init.js) and the query facade                 *)
(***************************************************************************)
\* queryOne resolves `row || null`; NoRow stands for null (ids start at 1)
NoRow == [id |-> 0, name |-> <<>>, email |-> <<>>, phone |-> <<>>, city |-> <<>>,
          gender |-> <<>>, age |-> 0, created_at |-> 0, updated_at |-> 0]

MakeRow(id, d, created, updated) ==
    [id |-> id, name |-> d.name, email |-> d.email, phone |-> d.phone,
     city |-> d.city, gender |-> d.gender, age |-> d.age,
     created_at |-> created, updated_at |-> updated]

DataOf(r) ==
    [name |-> r.name, email |-> r.email, phone |-> r.phone, city |-> r.city,
     gender |-> r.gender, age |-> r.age]

\* CHECK (gender IN (...)) and CHECK (age >= 0 AND age <= 150)
CheckOk(r) ==
    /\ r.gender \in Genders
    /\ r.age >= 10 * MinAge /\ r.age <= 10 * MaxAge

\* the table without its UNIQUE constraint
EmailUniqueOk_Unenforced(tbl, r) == TRUE

\* email TEXT UNIQUE: no other row holds the email (BINARY collation)
EmailUniqueOk(tbl, r) == \A u \in tbl : u.id # r.id => u.email # r.email

\* the constraint an INSERT of r into tbl violates, "" if none
InsertViolation(tbl, r) ==
    IF \E u \in tbl : u.id = r.id THEN "SQLITE_CONSTRAINT_PRIMARYKEY"
    ELSE IF ~EmailUniqueOk(tbl, r) THEN "SQLITE_CONSTRAINT_UNIQUE"
    ELSE IF ~CheckOk(r) THEN "SQLITE_CONSTRAINT_CHECK"
    ELSE ""

\* the constraint an UPDATE of a row to r violates, "" if none
UpdateViolation(tbl, r) ==
    IF ~EmailUniqueOk(tbl, r) THEN "SQLITE_CONSTRAINT_UNIQUE"
    ELSE IF ~CheckOk(r) THEN "SQLITE_CONSTRAINT_CHECK"
    ELSE ""

\* SELECT * FROM users WHERE id = ?
getUserById(tbl, id) ==
    IF \E u \in tbl : u.id = id THEN CHOOSE u \in tbl : u.id = id ELSE NoRow

\* SELECT * FROM users WHERE email = ?
getUserByEmail(tbl, email) ==
    IF \E u \in tbl : u.email = email THEN CHOOSE u \in tbl : u.email = email ELSE NoRow

\* DatabaseService.execute resolves {lastID, changes}
ExecResult(changes) == [lastID |-> 0, changes |-> changes]

\* `result.affectedRows === 1` in the repository
AffectedRowsIsOne(result) ==
    "affectedRows" \in DOMAIN result /\ result["affectedRows"] = 1

(***************************************************************************)
(* Request bodies of the concurrent model                                  *)
(***************************************************************************)
MkBody(name, email, phone, city, gender, age) ==
    [f \in FieldSet |->
        CASE f = "name"   -> name
          [] f = "email"  -> email
          [] f = "phone"  -> phone
          [] f = "city"   -> city
          [] f = "gender" -> gender
          [] OTHER        -> age]

EmptyBody == [f \in FieldSet |-> Undefined]

sAnn   == Str(<<" ","A","n","n">>)
sBob   == Str(<<"B","o","b">>)
sMailA == Str(<<"a","@","b",".","c">>)
sMailU == Str(<<"A","@","b",".","c">>)
sMailD == Str(<<"d","@","b",".","c">>)
sPhone == Str(<<"1">>)
sNYC   == Str(<<"N","Y","C">>)
sLA    == Str(<<"L","A">>)
sFEM   == Str(<<"F","E","M","A","L","E">>)
smale  == Str(<<"m","a","l","e">>)

\* two normalizations of one address, a second address, a body that fails
\* validation, a body that passes it with a numeric name and one that
\* passes it with a fractional age
Bodies ==
    { MkBody(sAnn, sMailA, sPhone, sNYC, sFEM, Num(29)),
      MkBody(sBob, sMailU, sPhone, sLA, smale, Str(<<"4","0">>)),
      MkBody(sBob, sMailD, sPhone, sLA, smale, Num(0 - 1) ),
      MkBody(sBob, sMailD, sPhone, sNYC, smale, Num(150)),
      MkBody(Num(5), sMailA, sPhone, sLA, smale, Num(29)),
      MkBody(sAnn, sMailD, sPhone, sNYC, sFEM, Num10(295)) }

(***************************************************************************)
(* State                                                                   *)
(***************************************************************************)
MaxRequests == 3
MaxTime == 1

Procs == {1, 2}

VARIABLES
    users,      \* the rows of table users
    now,        \* CURRENT_TIMESTAMP
    nextId,     \* ids handed out so far + 1 (uuidv4 never repeats)
    nreq,       \* requests received
    req,        \* per in-flight request: position and locals
    last,       \* the request answered last: its response and what it did
    cand,       \* validator run: the candidate body
    out,        \* validator run: its outcome
    query,      \* query run: the options / filters / term of the call
    fetched,    \* query run: what list, search and count returned
    file,       \* flat-file store: the array kept in data.json
    fop,        \* flat-file store: per caller, the call in progress
    removed,    \* flat-file store: ids whose deleteUser returned true
    errs,       \* error responses: NODE_ENV and the bodies sent
    conn,       \* connection: the handle of DatabaseService and the process
    routed,     \* router: the request and the handler it was dispatched to
    mig,        \* migration: position in the array of data.json and counts
    reader      \* GET /users and GET /users/stats in flight, and the answer

vars == <<users, now, nextId, nreq, req, last, cand, out, query, fetched, file, fop, removed, errs, conn, routed, mig, reader>>

\* found:  the id had a row when the handler looked it up
\* own:    (update) the normalized email was the row's own when looked up
\* taken:  the email was held by a (different) row at the e-mail lookup
\* passed: validateUserData returned isValid
\* stmt:   the INSERT / UPDATE / DELETE was executed
\* changed: that statement changed the table
\* dbErr:  the constraint the storage layer rejected the statement with
IdleReq ==
    [pc |-> "idle", kind |-> "none", id |-> 0, body |-> EmptyBody, data |-> NoData,
     status |-> 0, message |-> "", errors |-> <<>>, resp |-> NoRow,
     found |-> FALSE, own |-> FALSE, taken |-> FALSE, passed |-> FALSE,
     stmt |-> FALSE, changed |-> FALSE, dbErr |-> ""]

NoValidation == [threw |-> FALSE, isValid |-> FALSE, errors |-> <<>>]

NoOut == [kind |-> "none", status |-> 0, validation |-> NoValidation, data |-> NoData]

NoQuery == [limit |-> Undefined, offset |-> Undefined, city |-> Undefined,
            gender |-> Undefined, search |-> Undefined]

\* a record of data.json
FileUser(id, d) ==
    [id |-> id, name |-> d.name, email |-> d.email, phone |-> d.phone,
     city |-> d.city, gender |-> d.gender, age |-> d.age]

NoFileUser == FileUser(0, NoData)

\* users: the array the call read; index: the position findIndex returned
IdleCall == [pc |-> "idle", kind |-> "none", id |-> 0, user |-> NoFileUser,
             users |-> <<>>, index |-> 0]

NoErrs == [env |-> "production", sent |-> <<>>]

\* db: this.db of DatabaseService: null, or a Database object whose open is
\* pending ("opening"), succeeded ("open") or failed ("failed");
\* call: per caller, where its query stands; answer: how its last query ended
NoConn == [db |-> "null", opens |-> 0, closes |-> 0, proc |-> "running", nq |-> 0,
           call |-> [p \in Procs |-> "idle"], answer |-> [p \in Procs |-> "none"]]

\* path: the segments of the request's path; handler: the handler that
\* answered it
NoRoute == [pc |-> "idle", method |-> "", path |-> <<>>, handler |-> "none"]

\* i: the index of the user the loop is at; migratedCount, errorCount: the
\* two counters of the loop
NoMig == [pc |-> "none", i |-> 0, migratedCount |-> 0, errorCount |-> 0]

NoRows == [done |-> FALSE, ok |-> FALSE, rows |-> <<>>]

\* avgAge is the fraction sum / n of ages held in tenths; n = 0 stands for
\* the null that AVG, MIN and MAX return on an empty table
NoAgeStats == [avgAge |-> [sum |-> 0, n |-> 0], minAge |-> 0, maxAge |-> 0]

NoStats == [done |-> FALSE, userCount |-> 0, cityStats |-> <<>>, genderStats |-> <<>>,
            ageStats |-> NoAgeStats]

\* a GET /users or GET /users/stats request between its awaits: list and
\* total are the results of the two queries of the list handler, stats the
\* results of the four queries of getStats; writes counts the statements
\* other requests ran meanwhile
NoReader == [pc |-> "idle", kind |-> "none", status |-> 0, list |-> NoRows, total |-> 0,
             stats |-> NoStats, writes |-> 0]

NoResult == [list |-> NoRows, search |-> NoRows, count |-> [done |-> FALSE, n |-> 0],
             stats |-> NoStats]

Init ==
    /\ users = {}
    /\ now = 0
    /\ nextId = 1
    /\ nreq = 0
    /\ req = [p \in Procs |-> IdleReq]
    /\ last = IdleReq
    /\ cand = EmptyBody
    /\ out = NoOut
    /\ query = NoQuery
    /\ fetched = NoResult
    /\ file = <<>>
    /\ fop = [p \in Procs |-> IdleCall]
    /\ removed = {}
    /\ errs = NoErrs
    /\ conn = NoConn
    /\ routed = NoRoute
    /\ mig = NoMig
    /\ reader = NoReader

\* res.status(code).json({success, message, errors?, data?})
Respond(r, code, message, errors, resp) ==
    [r EXCEPT !.pc = "done", !.status = code, !.message = message,
              !.errors = errors, !.resp = resp]

\* a request takes the lowest idle slot
Free(p) ==
    /\ nreq < MaxRequests
    /\ req[p].pc = "idle"
    /\ \A q \in Procs : q < p => req[q].pc # "idle"

\* the handler either answered (its slot is free again) or waits on a query
Settle(p, r) ==
    IF r.pc = "done"
    THEN req' = [req EXCEPT ![p] = IdleReq] /\ last' = r
    ELSE req' = [req EXCEPT ![p] = r] /\ UNCHANGED last

\* case-insensitive equality of a body's email with a stored one
SameEmailIgnoringCase(body, u) ==
    body["email"].t = "string" /\ ToLowerCase(body["email"].s) = ToLowerCase(u.email)

(***************************************************************************)
(* POST /users: controller createUser                                      *)
(***************************************************************************)
\* `await getUserByEmail(...)` and the code up to the next await (the
\* conflict answer, or the newUser literal with its fresh id)
CreateUserLookup(r, body, existingUser) ==
    IF existingUser # NoRow
    THEN Respond(r, 409, "Email already exists", <<>>, NoRow)
    ELSE IF NormalizeThrows(body)
    THEN Respond(r, 500, "Internal server error", <<>>, NoRow)
    ELSE [r EXCEPT !.pc = "create_insert", !.id = nextId,
                   !.data = NormalizedData(body)]

\* createUser from the request to its first answer or to the INSERT
CreateUserValidated(r0, body, validation) ==
    IF validation.threw
    THEN Respond(r0, 500, "Internal server error", <<>>, NoRow)
    ELSE IF ~validation.isValid
    THEN Respond(r0, 400, "Validation failed", validation.errors, NoRow)
    ELSE CreateUserLookup([r0 EXCEPT !.passed = TRUE], body,
                          getUserByEmail(users, NormalizedEmail(body)))

CreateUser(p, body) ==
    /\ Free(p)
    /\ \E r1 \in { CreateUserValidated(
                     [IdleReq EXCEPT !.kind = "create", !.body = body,
                        !.taken = \E u \in users : SameEmailIgnoringCase(body, u)],
                     body, validateUserData(body)) } :
          /\ Settle(p, r1)
          /\ nextId' = IF r1.pc = "create_insert" THEN nextId + 1 ELSE nextId
    /\ nreq' = nreq + 1
    /\ UNCHANGED <<users, now, cand, out, query, fetched, file, fop, removed, errs, conn, routed, mig, reader>>

\* the answer of createUser once the INSERT went through: the repository
\* re-reads the row by id when `result.affectedRows === 1` (201), and
\* throws 'Failed to create user' otherwise (500 through the catch)
CreateAnswer(r, result, tbl) ==
    IF AffectedRowsIsOne(result)
    THEN Respond(r, 201, "User created successfully", <<>>, getUserById(tbl, r.id))
    ELSE Respond(r, 500, "Internal server error", <<>>, NoRow)

\* the INSERT of the row: created_at, updated_at DEFAULT CURRENT_TIMESTAMP
InsertRow(p, row, viol) ==
    IF viol # ""
    THEN /\ Settle(p, Respond([req[p] EXCEPT !.stmt = TRUE, !.dbErr = viol], 500,
                              "Internal server error", <<>>, NoRow))
         /\ UNCHANGED users
    ELSE /\ users' = users \cup {row}
         /\ Settle(p, CreateAnswer([req[p] EXCEPT !.stmt = TRUE, !.changed = TRUE],
                                   ExecResult(1), users \cup {row}))

CreateInsert(p) ==
    /\ req[p].pc = "create_insert"
    /\ \E row \in { MakeRow(req[p].id, req[p].data, now, now) } :
          InsertRow(p, row, InsertViolation(users, row))
    /\ UNCHANGED <<now, nextId, nreq, cand, out, query, fetched, file, fop, removed, errs, conn, routed, mig, reader>>

(***************************************************************************)
(* POST /users/:id: controller updateUserById                              *)
(***************************************************************************)
\* after the e-mail check: the updatedUserData literal, then the UPDATE
UpdatePrepare(r, body) ==
    IF NormalizeThrows(body)
    THEN Respond(r, 500, "Internal server error", <<>>, NoRow)
    ELSE [r EXCEPT !.pc = "update_exec", !.data = NormalizedData(body)]

\* updateUserById after `await getUserById(id)` found the row
UpdateUserValidated(r0, body, validation, existingUser) ==
    IF validation.threw
    THEN Respond(r0, 500, "Internal server error", <<>>, NoRow)
    ELSE IF ~validation.isValid
    THEN Respond(r0, 400, "Validation failed", validation.errors, NoRow)
    ELSE IF NormalizedEmail(body) # existingUser.email
    THEN [r0 EXCEPT !.pc = "update_email", !.passed = TRUE]
    ELSE UpdatePrepare([r0 EXCEPT !.passed = TRUE], body)

\* validation moved in front of the existence check
UpdateUserFound_ValidateFirst(r0, body, existingUser) ==
    IF ~validateUserData(body).isValid
    THEN Respond(r0, 400, "Validation failed", validateUserData(body).errors, NoRow)
    ELSE IF existingUser = NoRow
    THEN Respond(r0, 404, "User not found", <<>>, NoRow)
    ELSE UpdateUserValidated(r0, body, validateUserData(body), existingUser)

UpdateUserFound(r0, body, existingUser) ==
    IF existingUser = NoRow
    THEN Respond(r0, 404, "User not found", <<>>, NoRow)
    ELSE UpdateUserValidated(r0, body, validateUserData(body), existingUser)

UpdateUserById(p, id, body) ==
    /\ Free(p)
    /\ Settle(p, UpdateUserFound(
                    [IdleReq EXCEPT !.kind = "update", !.id = id, !.body = body,
                       !.found = \E u \in users : u.id = id,
                       !.own = \E u \in users : u.id = id /\ SameEmailIgnoringCase(body, u)],
                    body, getUserById(users, id)))
    /\ nreq' = nreq + 1
    /\ UNCHANGED <<users, now, nextId, cand, out, query, fetched, file, fop, removed, errs, conn, routed, mig, reader>>

\* the update without its e-mail conflict check
UpdateEmailFound_NoCheck(r, emailExists) == UpdatePrepare(r, r.body)

\* `await getUserByEmail(newEmail)` when the e-mail differs from the one read
UpdateEmailFound(r, emailExists) ==
    IF emailExists # NoRow
    THEN Respond(r, 409, "Email already exists", <<>>, NoRow)
    ELSE UpdatePrepare(r, r.body)

UpdateEmailLookup(p) ==
    /\ req[p].pc = "update_email"
    /\ \E email \in { NormalizedEmail(req[p].body) } :
          Settle(p, UpdateEmailFound(
                       [req[p] EXCEPT !.taken =
                           \E u \in users : u.id # req[p].id
                                            /\ SameEmailIgnoringCase(req[p].body, u)],
                       getUserByEmail(users, email)))
    /\ UNCHANGED <<users, now, nextId, nreq, cand, out, query, fetched, file, fop, removed, errs, conn, routed, mig, reader>>

\* the answer of updateUserById once the UPDATE went through: the
\* repository re-reads the row when `result.affectedRows === 1` (200) and
\* returns null otherwise ('Failed to update user', 500)
UpdateAnswer(r, result, tbl) ==
    IF AffectedRowsIsOne(result)
    THEN Respond(r, 200, "User updated successfully", <<>>, getUserById(tbl, r.id))
    ELSE Respond(r, 500, "Failed to update user", <<>>, NoRow)

\* the row without the AFTER UPDATE trigger
UpdatedRow_NoTrigger(old, d, t) == MakeRow(old.id, d, old.created_at, old.updated_at)

\* the row an UPDATE leaves: SET replaces the six data columns, id and
\* created_at stay, and the trigger sets updated_at = CURRENT_TIMESTAMP
UpdatedRow(old, d, t) == MakeRow(old.id, d, old.created_at, t)

\* UPDATE ... WHERE id = ?; the AFTER UPDATE trigger sets updated_at
UpdateRow(p, old, row, viol) ==
    IF old = NoRow
    THEN /\ Settle(p, UpdateAnswer([req[p] EXCEPT !.stmt = TRUE], ExecResult(0), users))
         /\ UNCHANGED users
    ELSE IF viol # ""
    THEN /\ Settle(p, Respond([req[p] EXCEPT !.stmt = TRUE, !.dbErr = viol], 500,
                              "Internal server error", <<>>, NoRow))
         /\ UNCHANGED users
    ELSE /\ users' = (users \ {old}) \cup {row}
         /\ Settle(p, UpdateAnswer([req[p] EXCEPT !.stmt = TRUE, !.changed = TRUE],
                                   ExecResult(1), (users \ {old}) \cup {row}))

UpdateExec(p) ==
    /\ req[p].pc = "update_exec"
    /\ \E old \in { getUserById(users, req[p].id) } :
          \E row \in { UpdatedRow(old, req[p].data, now) } :
             UpdateRow(p, old, row, UpdateViolation(users, row))
    /\ UNCHANGED <<now, nextId, nreq, cand, out, query, fetched, file, fop, removed, errs, conn, routed, mig, reader>>

(***************************************************************************)
(* DELETE /users/:id: controller deleteUserById                            *)
(***************************************************************************)
DeleteUserFound(r0, existingUser) ==
    IF existingUser = NoRow
    THEN Respond(r0, 404, "User not found", <<>>, NoRow)
    ELSE [r0 EXCEPT !.pc = "delete_exec"]

DeleteUserById(p, id) ==
    /\ Free(p)
    /\ Settle(p, DeleteUserFound([IdleReq EXCEPT !.kind = "delete", !.id = id,
                                             !.found = \E u \in users : u.id = id],
                                 getUserById(users, id)))
    /\ nreq' = nreq + 1
    /\ UNCHANGED <<users, now, nextId, cand, out, query, fetched, file, fop, removed, errs, conn, routed, mig, reader>>

\* repository deleteUser returns `result.affectedRows === 1`
DeleteAnswer(r, result) ==
    IF AffectedRowsIsOne(result)
    THEN Respond(r, 200, "User deleted successfully", <<>>, NoRow)
    ELSE Respond(r, 500, "Failed to delete user", <<>>, NoRow)

\* DELETE FROM users WHERE id = ?
DeleteExec(p) ==
    /\ req[p].pc = "delete_exec"
    /\ \E old \in { getUserById(users, req[p].id) } :
          /\ users' = users \ {old}
          /\ Settle(p, DeleteAnswer([req[p] EXCEPT !.stmt = TRUE,
                                                   !.changed = (old # NoRow)],
                                    ExecResult(IF old = NoRow THEN 0 ELSE 1)))
    /\ UNCHANGED <<now, nextId, nreq, cand, out, query, fetched, file, fop, removed, errs, conn, routed, mig, reader>>

\* the server clock read by CURRENT_TIMESTAMP
Tick ==
    /\ now < MaxTime
    /\ now' = now + 1
    /\ UNCHANGED <<users, nextId, nreq, req, last, cand, out, query, fetched, file, fop, removed, errs, conn, routed, mig, reader>>

Next ==
    \/ \E p \in Procs, body \in Bodies : CreateUser(p, body)
    \/ \E p \in Procs : CreateInsert(p)
    \/ \E p \in Procs, id \in 0..(nextId - 1), body \in Bodies : UpdateUserById(p, id, body)
    \/ \E p \in Procs : UpdateEmailLookup(p)
    \/ \E p \in Procs : UpdateExec(p)
    \/ \E p \in Procs, id \in 0..(nextId - 1) : DeleteUserById(p, id)
    \/ \E p \in Procs : DeleteExec(p)
    \/ Tick

Spec == Init /\ [][Next]_vars

(***************************************************************************)
(* The validator on its own: validation followed by normalization, as      *)
(* createUser runs them on a body whose email is free                      *)
(***************************************************************************)
sBlank   == Str(<<" ">>)
sEmpty   == Str(<<>>)
sNoAt    == Str(<<"a","b",".","c">>)
sMALE    == Str(<<"M","A","L","E">>)
sUnknown == Str(<<"u","n","k","n","o","w","n">>)

NameValues   == { Undefined, sAnn, sBlank, Num(5) }
EmailValues  == { Undefined, sMailU, sNoAt, sEmpty, Num(5) }
PhoneValues  == { sPhone, Null }
CityValues   == { sNYC, Bool(TRUE) }
GenderValues == { Undefined, sMALE, sUnknown, sBlank, Num(5), Bool(TRUE) }
AgeValues    == { Undefined, Null, Num(0), Num(150), Num(0 - 1), Num(151), Num10(295),
                  Str(<<"0">>), Str(<<" ","4","0">>), Str(<<"a","b","c">>), Bool(TRUE) }

Candidates ==
    { MkBody(n, e, ph, c, g, a) :
        n \in NameValues, e \in EmailValues, ph \in PhoneValues,
        c \in CityValues, g \in GenderValues, a \in AgeValues }

\* createUser, lines 83-113, without the lookup: 500 from the catch when
\* something throws, 400 with the errors, or the normalized record
PrepareValidated(body, validation) ==
    [kind       |-> IF validation.threw THEN "threw"
                    ELSE IF ~validation.isValid THEN "errors"
                    ELSE IF NormalizeThrows(body) THEN "threw"
                    ELSE "record",
     status     |-> IF validation.threw THEN 500
                    ELSE IF ~validation.isValid THEN 400
                    ELSE IF NormalizeThrows(body) THEN 500
                    ELSE 0,
     validation |-> validation,
     data       |-> IF ~validation.threw /\ validation.isValid /\ ~NormalizeThrows(body)
                    THEN NormalizedData(body) ELSE NoData]

Prepare(body) == PrepareValidated(body, validateUserData(body))

InitV ==
    /\ users = {}
    /\ now = 0
    /\ nextId = 1
    /\ nreq = 0
    /\ req = [p \in Procs |-> IdleReq]
    /\ last = IdleReq
    /\ cand \in Candidates
    /\ out = NoOut
    /\ query = NoQuery
    /\ fetched = NoResult
    /\ file = <<>>
    /\ fop = [p \in Procs |-> IdleCall]
    /\ removed = {}
    /\ errs = NoErrs
    /\ conn = NoConn
    /\ routed = NoRoute
    /\ mig = NoMig
    /\ reader = NoReader

ValidateCandidate ==
    /\ out.kind = "none"
    /\ out' = Prepare(cand)
    /\ UNCHANGED <<users, now, nextId, nreq, req, last, cand, query, fetched, file, fop, removed, errs, conn, routed, mig, reader>>

NextV == ValidateCandidate

SpecV == InitV /\ [][NextV]_vars

(***************************************************************************)
(* The read side of the repository: getAllUsers, searchUsers, getUserCount *)
(* run on a table, as SQLite evaluates the statements they compose         *)
(***************************************************************************)
\* x LIKE pat: % matches any run of characters, _ any one character, and
\* letters match whatever their case
RECURSIVE Like(_, _)
Like(x, pat) ==
    IF pat = <<>> THEN x = <<>>
    ELSE IF pat[1] = "%" THEN Like(x, Tail(pat)) \/ (x # <<>> /\ Like(Tail(x), pat))
    ELSE /\ x # <<>>
         /\ pat[1] = "_" \/ LowerChar(pat[1]) = LowerChar(x[1])
         /\ Like(Tail(x), Tail(pat))

\* `%${search}%`
SearchPattern(search) == <<"%">> \o JsToString(search) \o <<"%">>

\* name LIKE ? OR email LIKE ?
NameOrEmailLike(u, pat) == Like(u.name, pat) \/ Like(u.email, pat)

\* the WHERE clause getAllUsers composes: a condition per truthy option
ListWhere(u, options) ==
    /\ Truthy(options.city) => u.city = options.city.s
    /\ Truthy(options.gender) => u.gender = options.gender.s
    /\ Truthy(options.search) => NameOrEmailLike(u, SearchPattern(options.search))

\* the first row of ORDER BY created_at DESC; rows of one created_at come in
\* the order of the backward scan of idx_users_created_at, later insert first
FirstByCreatedAtDesc(S) ==
    CHOOSE u \in S : \A v \in S :
        v.created_at < u.created_at \/ (v.created_at = u.created_at /\ v.id <= u.id)

\* ORDER BY created_at DESC
RECURSIVE OrderByCreatedAtDesc(_)
OrderByCreatedAtDesc(S) ==
    IF S = {} THEN <<>>
    ELSE <<FirstByCreatedAtDesc(S)>> \o OrderByCreatedAtDesc(S \ {FirstByCreatedAtDesc(S)})

Min(a, b) == IF a < b THEN a ELSE b

\* LIMIT l OFFSET o on an ordered result
LimitOffset(rows, l, o) == SubSeq(rows, o + 1, Min(o + l, Len(rows)))

\* ' LIMIT ?' when limit is truthy, ' OFFSET ?' when offset is truthy
Paginate(rows, limit, offset) ==
    LimitOffset(rows,
                IF Truthy(limit) THEN limit.x10 \div 10 ELSE Len(rows),
                IF Truthy(offset) THEN offset.x10 \div 10 ELSE 0)

\* what db.query resolves or rejects with
Rows(rows) == [done |-> TRUE, ok |-> TRUE, rows |-> rows]

SqlError == [done |-> TRUE, ok |-> FALSE, rows |-> <<>>]

\* UserRepository.getAllUsers: '... ORDER BY created_at DESC OFFSET ?' with
\* no LIMIT is not a statement of the SQL dialect (near "OFFSET": syntax
\* error), so db.query rejects
getAllUsers(tbl, options) ==
    IF ~Truthy(options.limit) /\ Truthy(options.offset) THEN SqlError
    ELSE Rows(Paginate(OrderByCreatedAtDesc({u \in tbl : ListWhere(u, options)}),
                       options.limit, options.offset))

\* a search that looks at the name only
searchUsers_NameOnly(tbl, searchTerm) ==
    Rows(OrderByCreatedAtDesc({u \in tbl : Like(u.name, SearchPattern(searchTerm))}))

\* UserRepository.searchUsers
searchUsers(tbl, searchTerm) ==
    Rows(OrderByCreatedAtDesc({u \in tbl : NameOrEmailLike(u, SearchPattern(searchTerm))}))

\* a count that ignores the gender filter
getUserCount_CityOnly(tbl, filters) ==
    Cardinality({u \in tbl : Truthy(filters.city) => u.city = filters.city.s})

\* UserRepository.getUserCount
getUserCount(tbl, filters) ==
    Cardinality({u \in tbl :
                    /\ Truthy(filters.city) => u.city = filters.city.s
                    /\ Truthy(filters.gender) => u.gender = filters.gender.s})

\* SELECT COUNT(*) as count FROM users
CountAll(tbl) == Cardinality(tbl)

\* SELECT f, COUNT(*) as count FROM users GROUP BY f
GroupCounts(tbl, f) ==
    { [key |-> k, count |-> Cardinality({u \in tbl : u[f] = k})] : k \in {u[f] : u \in tbl} }

\* the groups in increasing order of count
RECURSIVE OrderByCountAsc(_)
OrderByCountAsc(G) ==
    IF G = {} THEN <<>>
    ELSE <<CHOOSE g \in G : \A h \in G : h.count >= g.count>>
         \o OrderByCountAsc(G \ {CHOOSE g \in G : \A h \in G : h.count >= g.count})

\* ORDER BY count DESC
RECURSIVE OrderByCountDesc(_)
OrderByCountDesc(G) ==
    IF G = {} THEN <<>>
    ELSE <<CHOOSE g \in G : \A h \in G : h.count <= g.count>>
         \o OrderByCountDesc(G \ {CHOOSE g \in G : \A h \in G : h.count <= g.count})

RECURSIVE SumAge(_)
SumAge(tbl) ==
    IF tbl = {} THEN 0
    ELSE (CHOOSE u \in tbl : TRUE).age + SumAge(tbl \ {CHOOSE u \in tbl : TRUE})

\* SELECT AVG(age) as avgAge, MIN(age) as minAge, MAX(age) as maxAge FROM users
AgeStats(tbl) ==
    IF tbl = {} THEN NoAgeStats
    ELSE [avgAge |-> [sum |-> SumAge(tbl), n |-> Cardinality(tbl)],
          minAge |-> CHOOSE a \in {u.age : u \in tbl} : \A u \in tbl : a <= u.age,
          maxAge |-> CHOOSE a \in {u.age : u \in tbl} : \A u \in tbl : a >= u.age]

\* UserRepository.getStats (with userCount of DatabaseService.getStats; the
\* size of the database file is left out), every query on the table tbl
getStats(tbl) ==
    [done |-> TRUE, userCount |-> CountAll(tbl),
     cityStats |-> OrderByCountDesc(GroupCounts(tbl, "city")),
     genderStats |-> OrderByCountDesc(GroupCounts(tbl, "gender")),
     ageStats |-> AgeStats(tbl)]

\* rows as the controllers write them: ids in insertion order
sDan    == <<"D","a","n">>
sfemale == <<"f","e","m","a","l","e">>

QRow(id, name, email, city, gender, age, t) ==
    [id |-> id, name |-> name, email |-> email, phone |-> <<"1">>, city |-> city,
     gender |-> gender, age |-> age, created_at |-> t, updated_at |-> t]

Row1 == QRow(1, <<"A","n","n">>, <<"a","@","b",".","c">>, sNYC.s, sfemale, 290, 0)
Row2(t) == QRow(2, sBob.s, <<"d","@","b",".","c">>, sLA.s, smale.s, 400, t)
Row3 == QRow(3, sDan, <<"e","@","b",".","c">>, sNYC.s, smale.s, 1500, 1)
Row4 == QRow(4, sBob.s, <<"f","@","b",".","c">>, sNYC.s, smale.s, 0, 1)

Tables ==
    { A \cup B \cup C \cup D :
        A \in {{}, {Row1}}, B \in {{}, {Row2(0)}, {Row2(1)}},
        C \in {{}, {Row3}}, D \in {{}, {Row4}} }

MaxLimit == 2
MaxOffset == 1

LimitValues  == {Undefined} \cup {Num(n) : n \in 0..MaxLimit}
OffsetValues == {Undefined} \cup {Num(n) : n \in 0..MaxOffset}
TermValues   == { Undefined, Str(<<>>), Str(<<"A","N">>), Str(<<"D">>), Str(<<"_">>) }

Queries ==
    [limit : LimitValues, offset : OffsetValues, city : {Undefined, sNYC},
     gender : {Undefined, smale}, search : TermValues]

InitQ ==
    /\ users \in Tables
    /\ now = 1
    /\ nextId = 5
    /\ nreq = 0
    /\ req = [p \in Procs |-> IdleReq]
    /\ last = IdleReq
    /\ cand = EmptyBody
    /\ out = NoOut
    /\ query \in Queries
    /\ fetched = NoResult
    /\ file = <<>>
    /\ fop = [p \in Procs |-> IdleCall]
    /\ removed = {}
    /\ errs = NoErrs
    /\ conn = NoConn
    /\ routed = NoRoute
    /\ mig = NoMig
    /\ reader = NoReader

GetAllUsers ==
    /\ ~fetched.list.done
    /\ fetched' = [fetched EXCEPT !.list = getAllUsers(users, query)]
    /\ UNCHANGED <<users, now, nextId, nreq, req, last, cand, out, query, file, fop, removed, errs, conn, routed, mig, reader>>

SearchUsers ==
    /\ ~fetched.search.done
    /\ query.search.t = "string"
    /\ fetched' = [fetched EXCEPT !.search = searchUsers(users, query.search)]
    /\ UNCHANGED <<users, now, nextId, nreq, req, last, cand, out, query, file, fop, removed, errs, conn, routed, mig, reader>>

GetUserCount ==
    /\ ~fetched.count.done
    /\ fetched' = [fetched EXCEPT !.count = [done |-> TRUE, n |-> getUserCount(users, query)]]
    /\ UNCHANGED <<users, now, nextId, nreq, req, last, cand, out, query, file, fop, removed, errs, conn, routed, mig, reader>>

GetStats ==
    /\ ~fetched.stats.done
    /\ fetched' = [fetched EXCEPT !.stats = getStats(users)]
    /\ UNCHANGED <<users, now, nextId, nreq, req, last, cand, out, query, file, fop, removed, errs, conn, routed, mig, reader>>

NextQ == GetAllUsers \/ SearchUsers \/ GetUserCount \/ GetStats

SpecQ == InitQ /\ [][NextQ]_vars

(***************************************************************************)
(* The flat-file store (utils/fileUtils): every call reads the whole array *)
(* from data.json and the writing calls write the whole array back; the    *)
(* read and the write of one call are separate awaits                      *)
(***************************************************************************)
MaxCalls == 3

\* users.findIndex(user => user.id === id), 1-based, 0 for -1
FindIndex(arr, id) ==
    IF \E i \in 1..Len(arr) : arr[i].id = id
    THEN CHOOSE i \in 1..Len(arr) : arr[i].id = id /\ \A j \in 1..(i - 1) : arr[j].id # id
    ELSE 0

\* users.splice(userIndex, 1)
Splice(arr, i) == SubSeq(arr, 1, i - 1) \o SubSeq(arr, i + 1, Len(arr))

\* the record data the controller passes: bodies that pass validation and
\* normalization
FileData ==
    { NormalizedData(b) :
        b \in {x \in Bodies : validateUserData(x).isValid /\ ~NormalizeThrows(x)} }

FreeCall(p) ==
    /\ nreq < MaxCalls
    /\ fop[p].pc = "idle"
    /\ \A q \in Procs : q < p => fop[q].pc # "idle"

\* addUser up to `await writeUsers(users)`: readUsers, then users.push(user)
AddUserRead(p, d) ==
    /\ FreeCall(p)
    /\ fop' = [fop EXCEPT ![p] = [IdleCall EXCEPT !.pc = "write", !.kind = "add",
                                     !.id = nextId, !.user = FileUser(nextId, d),
                                     !.users = Append(file, FileUser(nextId, d))]]
    /\ nextId' = nextId + 1
    /\ nreq' = nreq + 1
    /\ UNCHANGED <<users, now, req, last, cand, out, query, fetched, file, removed, errs, conn, routed, mig, reader>>

\* updateUser up to `await writeUsers(users)`: readUsers, findIndex, then
\* users[userIndex] = { ...users[userIndex], ...updatedUser }; null when
\* the id is not in the array
UpdateUserRead(p, id, d) ==
    /\ FreeCall(p)
    /\ \E i \in { FindIndex(file, id) } :
          fop' = [fop EXCEPT ![p] =
                     IF i = 0 THEN IdleCall
                     ELSE [IdleCall EXCEPT !.pc = "write", !.kind = "update", !.id = id,
                                           !.index = i, !.user = FileUser(file[i].id, d),
                                           !.users = [file EXCEPT ![i] = FileUser(file[i].id, d)]]]
    /\ nreq' = nreq + 1
    /\ UNCHANGED <<users, now, nextId, req, last, cand, out, query, fetched, file, removed, errs, conn, routed, mig, reader>>

\* deleteUser up to `await writeUsers(users)`: readUsers, findIndex, then
\* users.splice(userIndex, 1); false when the id is not in the array
DeleteUserRead(p, id) ==
    /\ FreeCall(p)
    /\ \E i \in { FindIndex(file, id) } :
          fop' = [fop EXCEPT ![p] =
                     IF i = 0 THEN IdleCall
                     ELSE [IdleCall EXCEPT !.pc = "write", !.kind = "delete", !.id = id,
                                           !.index = i, !.user = file[i],
                                           !.users = Splice(file, i)]]
    /\ nreq' = nreq + 1
    /\ UNCHANGED <<users, now, nextId, req, last, cand, out, query, fetched, file, removed, errs, conn, routed, mig, reader>>

\* writeUsers(users): JSON.stringify of the call's array replaces the file
WriteUsers(p) ==
    /\ fop[p].pc = "write"
    /\ file' = fop[p].users
    /\ fop' = [fop EXCEPT ![p] = IdleCall]
    /\ removed' = IF fop[p].kind = "delete" THEN removed \cup {fop[p].id} ELSE removed
    /\ UNCHANGED <<users, now, nextId, nreq, req, last, cand, out, query, fetched,
                   errs, conn, routed, mig, reader>>

NextF ==
    \/ \E p \in Procs, d \in FileData : AddUserRead(p, d)
    \/ \E p \in Procs, id \in 0..(nextId - 1), d \in FileData : UpdateUserRead(p, id, d)
    \/ \E p \in Procs, id \in 0..(nextId - 1) : DeleteUserRead(p, id)
    \/ \E p \in Procs : WriteUsers(p)

SpecF == Init /\ [][NextF]_vars

(***************************************************************************)
(* Error responses: the catch block of the handlers and the global error   *)
(* handler of the server                                                   *)
(***************************************************************************)
MaxFailures == 2

\* error.message of errors the storage layer rejects a query with, and of
\* the error the repository throws itself
StorageErrors ==
    { "SQLITE_CONSTRAINT: UNIQUE constraint failed: users.email",
      "SQLITE_BUSY: database is locked",
      "SQLITE_ERROR: no such table: users",
      "Failed to create user" }

\* error.message of errors raised before a handler runs (express.json)
MiddlewareErrors ==
    { "Unexpected end of JSON input", "request entity too large" }

Environments == { "development", "production", "" }

\* catch (error) { res.status(500).json({success, message, error: error.message}) }
ControllerCatch(message) ==
    [status |-> 500, success |-> FALSE, message |-> "Internal server error",
     error |-> message]

\* app.use((error, req, res, next) => ...)
GlobalErrorHandler(message, env) ==
    [status |-> 500, success |-> FALSE, message |-> "Internal server error",
     error |-> IF env = "development" THEN message ELSE "Something went wrong"]

InitE ==
    /\ users = {}
    /\ now = 0
    /\ nextId = 1
    /\ nreq = 0
    /\ req = [p \in Procs |-> IdleReq]
    /\ last = IdleReq
    /\ cand = EmptyBody
    /\ out = NoOut
    /\ query = NoQuery
    /\ fetched = NoResult
    /\ file = <<>>
    /\ fop = [p \in Procs |-> IdleCall]
    /\ removed = {}
    /\ errs \in [env : Environments, sent : {<<>>}]
    /\ conn = NoConn
    /\ routed = NoRoute
    /\ mig = NoMig
    /\ reader = NoReader

\* a query of a handler rejects: the handler's own catch answers
StorageFailure(detail) ==
    /\ Len(errs.sent) < MaxFailures
    /\ errs' = [errs EXCEPT !.sent = Append(@, [source |-> "storage", detail |-> detail,
                                                  body |-> ControllerCatch(detail)])]
    /\ UNCHANGED <<users, now, nextId, nreq, req, last, cand, out, query, fetched,
                   file, fop, removed, conn, routed, mig, reader>>

\* a middleware passes an error to next(): the global handler answers
MiddlewareFailure(detail) ==
    /\ Len(errs.sent) < MaxFailures
    /\ errs' = [errs EXCEPT !.sent = Append(@, [source |-> "middleware", detail |-> detail,
                                                  body |-> GlobalErrorHandler(detail, errs.env)])]
    /\ UNCHANGED <<users, now, nextId, nreq, req, last, cand, out, query, fetched,
                   file, fop, removed, conn, routed, mig, reader>>

NextE ==
    \/ \E detail \in StorageErrors : StorageFailure(detail)
    \/ \E detail \in MiddlewareErrors : MiddlewareFailure(detail)

SpecE == InitE /\ [][NextE]_vars

(***************************************************************************)
(* The shared connection: DatabaseService.getDatabase as called by query,  *)
(* queryOne and execute, and the shutdown handlers of the server           *)
(***************************************************************************)
MaxQueries == 4

\* `const db = await this.getDatabase()`: with this.db unset the executor
\* stores the new Database object at once and the caller waits for the open
\* callback; otherwise the stored object is returned as it is
GetDatabase(p) ==
    /\ conn.proc = "running"
    /\ conn.call[p] = "idle"
    /\ conn.nq < MaxQueries
    /\ conn' = IF conn.db = "null"
               THEN [conn EXCEPT !.db = "opening", !.opens = @ + 1, !.nq = @ + 1,
                                 !.call[p] = "await_open"]
               ELSE [conn EXCEPT !.nq = @ + 1, !.call[p] = "resolved"]
    /\ UNCHANGED <<users, now, nextId, nreq, req, last, cand, out, query, fetched,
                   file, fop, removed, errs, routed, mig, reader>>

\* the callback of new sqlite3.Database: reject(err), or the two PRAGMAs and
\* resolve(this.db); this.db keeps the object either way
OpenCallback(err) ==
    /\ conn.proc = "running"
    /\ conn.db = "opening"
    /\ conn' = [conn EXCEPT
                  !.db = IF err THEN "failed" ELSE "open",
                  !.call = [p \in Procs |->
                              IF conn.call[p] # "await_open" THEN conn.call[p]
                              ELSE IF err THEN "idle" ELSE "resolved"],
                  !.answer = [p \in Procs |->
                                IF conn.call[p] = "await_open" /\ err THEN "error"
                                ELSE conn.answer[p]]]
    /\ UNCHANGED <<users, now, nextId, nreq, req, last, cand, out, query, fetched,
                   file, fop, removed, errs, routed, mig, reader>>

\* db.all / db.get / db.run on the object getDatabase resolved with: the
\* statement waits while the open is pending, and fails on an object whose
\* open failed
RunQuery(p) ==
    /\ conn.proc = "running"
    /\ conn.call[p] = "resolved"
    /\ conn.db \in {"open", "failed"}
    /\ conn' = [conn EXCEPT !.call[p] = "idle",
                            !.answer[p] = IF conn.db = "open" THEN "rows" ELSE "error"]
    /\ UNCHANGED <<users, now, nextId, nreq, req, last, cand, out, query, fetched,
                   file, fop, removed, errs, routed, mig, reader>>

\* process.on('SIGTERM' / 'SIGINT'): console.log, process.exit(0)
Shutdown ==
    /\ conn.proc = "running"
    /\ conn' = [conn EXCEPT !.proc = "exited"]
    /\ UNCHANGED <<users, now, nextId, nreq, req, last, cand, out, query, fetched,
                   file, fop, removed, errs, routed, mig, reader>>

NextC ==
    \/ \E p \in Procs : GetDatabase(p)
    \/ \E err \in BOOLEAN : OpenCallback(err)
    \/ \E p \in Procs : RunQuery(p)
    \/ Shutdown

SpecC == Init /\ [][NextC]_vars

(***************************************************************************)
(* Reading requests among writing ones: each await of a handler is a step, *)
(* and the statements of other requests run between the steps              *)
(***************************************************************************)
MaxWrites == 2

ReaderTables == { {}, {Row1}, {Row1, Row3}, {Row2(0), Row4} }

ReaderQueries ==
    [limit : {Undefined, Num(1)}, offset : {Undefined, Num(1)}, city : {Undefined, sNYC},
     gender : {Undefined, smale}, search : {Undefined, Str(<<"A","N">>)}]

InitR ==
    /\ users \in ReaderTables
    /\ now = 1
    /\ nextId = 5
    /\ nreq = 0
    /\ req = [p \in Procs |-> IdleReq]
    /\ last = IdleReq
    /\ cand = EmptyBody
    /\ out = NoOut
    /\ query \in ReaderQueries
    /\ fetched = NoResult
    /\ file = <<>>
    /\ fop = [p \in Procs |-> IdleCall]
    /\ removed = {}
    /\ errs = NoErrs
    /\ conn = NoConn
    /\ routed = NoRoute
    /\ mig = NoMig
    /\ reader = NoReader

\* the table after a statement of another request, and the count of them
Written(tbl) ==
    /\ reader.writes < MaxWrites
    /\ users' = tbl
    /\ reader' = [reader EXCEPT !.writes = @ + 1]
    /\ UNCHANGED <<now, nextId, nreq, req, last, cand, out, query, fetched,
                   file, fop, removed, errs, conn, routed, mig>>

\* the INSERT of a create request
InsertStatement ==
    \E row \in {Row1, Row2(1), Row3, Row4} :
        /\ InsertViolation(users, row) = ""
        /\ Written(users \cup {row})

\* the UPDATE of an update request that moves a user to another city
UpdateStatement ==
    \E old \in users, city \in {sNYC.s, sLA.s} :
        \E row \in { UpdatedRow(old, [DataOf(old) EXCEPT !.city = city], now) } :
            /\ row # old
            /\ UpdateViolation(users \ {old}, row) = ""
            /\ Written((users \ {old}) \cup {row})

\* the DELETE of a delete request
DeleteStatement ==
    \E old \in users : Written(users \ {old})

\* getAllUsers of the controller, first await: userRepository.getAllUsers;
\* a rejected query ends in the catch block with 500
ListUsers ==
    /\ reader.pc = "idle"
    /\ \E r \in { getAllUsers(users, query) } :
          reader' = [reader EXCEPT !.kind = "list", !.list = r,
                                   !.pc = IF r.ok THEN "listed" ELSE "done",
                                   !.status = IF r.ok THEN 0 ELSE 500]
    /\ UNCHANGED <<users, now, nextId, nreq, req, last, cand, out, query, fetched,
                   file, fop, removed, errs, conn, routed, mig>>

\* second await: userRepository.getUserCount({ city, gender }), then the
\* response with pagination.total and pagination.count = users.length
CountUsers ==
    /\ reader.pc = "listed"
    /\ reader' = [reader EXCEPT !.pc = "done", !.status = 200,
                                !.total = getUserCount(users, [city |-> query.city,
                                                               gender |-> query.gender])]
    /\ UNCHANGED <<users, now, nextId, nreq, req, last, cand, out, query, fetched,
                   file, fop, removed, errs, conn, routed, mig>>

\* UserRepository.getStats, first await: db.getStats (COUNT(*); the two
\* PRAGMA queries do not read the table)
StatsUserCount ==
    /\ reader.pc = "idle"
    /\ reader' = [reader EXCEPT !.kind = "stats", !.pc = "counted",
                                !.stats.userCount = CountAll(users)]
    /\ UNCHANGED <<users, now, nextId, nreq, req, last, cand, out, query, fetched,
                   file, fop, removed, errs, conn, routed, mig>>

\* second await: the GROUP BY city query
StatsCity ==
    /\ reader.pc = "counted"
    /\ reader' = [reader EXCEPT !.pc = "cities",
                                !.stats.cityStats = OrderByCountDesc(GroupCounts(users, "city"))]
    /\ UNCHANGED <<users, now, nextId, nreq, req, last, cand, out, query, fetched,
                   file, fop, removed, errs, conn, routed, mig>>

\* third await: the GROUP BY gender query
StatsGender ==
    /\ reader.pc = "cities"
    /\ reader' = [reader EXCEPT !.pc = "genders",
                                !.stats.genderStats = OrderByCountDesc(GroupCounts(users, "gender"))]
    /\ UNCHANGED <<users, now, nextId, nreq, req, last, cand, out, query, fetched,
                   file, fop, removed, errs, conn, routed, mig>>

\* fourth await: the age aggregates, then the response
StatsAge ==
    /\ reader.pc = "genders"
    /\ reader' = [reader EXCEPT !.pc = "done", !.status = 200, !.stats.done = TRUE,
                                !.stats.ageStats = AgeStats(users)]
    /\ UNCHANGED <<users, now, nextId, nreq, req, last, cand, out, query, fetched,
                   file, fop, removed, errs, conn, routed, mig>>

NextR ==
    \/ InsertStatement \/ UpdateStatement \/ DeleteStatement
    \/ ListUsers \/ CountUsers
    \/ StatsUserCount \/ StatsCity \/ StatsGender \/ StatsAge

SpecR == InitR /\ [][NextR]_vars

(***************************************************************************)
(* The dispatch of a request: the app's stack in the order of its app.use  *)
(* and app.get calls, the router's routes in the order of registration     *)
(***************************************************************************)
MaxSegments == 3

segUsers  == <<"u","s","e","r","s">>
segSearch == <<"s","e","a","r","c","h">>
segStats  == <<"s","t","a","t","s">>
segCity   == <<"c","i","t","y">>
segGender == <<"g","e","n","d","e","r">>
segHealth == <<"h","e","a","l","t","h">>

\* a literal segment of a route's path and a named parameter
Lit(text) == [param |-> FALSE, text |-> text]
Param(name) == [param |-> TRUE, text |-> name]

Route(method, pattern, handler) == [method |-> method, pattern |-> pattern, handler |-> handler]

\* the routes with the point lookup registered before the named paths
Routes_IdFirst ==
    << Route("POST", <<>>, "createUser"),
       Route("GET", <<>>, "getAllUsers"),
       Route("GET", <<Param("id")>>, "getUserById"),
       Route("GET", <<Lit(segSearch)>>, "searchUsers"),
       Route("GET", <<Lit(segStats)>>, "getStats"),
       Route("GET", <<Lit(segCity), Param("city")>>, "getUsersByCity"),
       Route("GET", <<Lit(segGender), Param("gender")>>, "getUsersByGender"),
       Route("POST", <<Param("id")>>, "updateUserById"),
       Route("DELETE", <<Param("id")>>, "deleteUserById") >>

\* router.post / router.get / router.delete, in the order of the calls
Routes ==
    << Route("POST", <<>>, "createUser"),
       Route("GET", <<>>, "getAllUsers"),
       Route("GET", <<Lit(segSearch)>>, "searchUsers"),
       Route("GET", <<Lit(segStats)>>, "getStats"),
       Route("GET", <<Lit(segCity), Param("city")>>, "getUsersByCity"),
       Route("GET", <<Lit(segGender), Param("gender")>>, "getUsersByGender"),
       Route("GET", <<Param("id")>>, "getUserById"),
       Route("POST", <<Param("id")>>, "updateUserById"),
       Route("DELETE", <<Param("id")>>, "deleteUserById") >>

\* a parameter takes any non-empty segment; a literal is compared without
\* regard to case (the router is not case sensitive)
MatchSegment(pat, seg) ==
    IF pat.param THEN seg # <<>> ELSE ToLowerCase(seg) = pat.text

MatchRoute(route, method, path) ==
    /\ route.method = method
    /\ Len(route.pattern) = Len(path)
    /\ \A i \in 1..Len(path) : MatchSegment(route.pattern[i], path[i])

\* the handler of the first route that matches; every handler answers and
\* none calls next(), so later routes never see the request
RouterDispatch(routes, method, path) ==
    IF \E i \in 1..Len(routes) : MatchRoute(routes[i], method, path)
    THEN routes[CHOOSE i \in 1..Len(routes) :
                    /\ MatchRoute(routes[i], method, path)
                    /\ \A j \in 1..(i - 1) : ~MatchRoute(routes[j], method, path)].handler
    ELSE "next"

\* the app's stack: the CORS middleware answers OPTIONS, then GET /health,
\* the router mounted at /users, GET /, and the 404 handler for the rest
AppDispatch(method, path) ==
    IF method = "OPTIONS" THEN "cors"
    ELSE IF method = "GET" /\ Len(path) = 1 /\ ToLowerCase(path[1]) = segHealth THEN "health"
    ELSE IF /\ path # <<>>
            /\ ToLowerCase(Head(path)) = segUsers
            /\ RouterDispatch(Routes, method, Tail(path)) # "next"
    THEN RouterDispatch(Routes, method, Tail(path))
    ELSE IF method = "GET" /\ path = <<>> THEN "root"
    ELSE "notFound"

Methods == {"GET", "POST", "DELETE", "PUT", "OPTIONS"}

Segments ==
    { segUsers, segSearch, segStats, segCity, segGender, segHealth,
      <<"S","e","a","r","c","h">>, <<"7">>, sNYC.s }

Paths == UNION { [1..n -> Segments] : n \in 0..MaxSegments }

InitD ==
    /\ users = {}
    /\ now = 0
    /\ nextId = 1
    /\ nreq = 0
    /\ req = [p \in Procs |-> IdleReq]
    /\ last = IdleReq
    /\ cand = EmptyBody
    /\ out = NoOut
    /\ query = NoQuery
    /\ fetched = NoResult
    /\ file = <<>>
    /\ fop = [p \in Procs |-> IdleCall]
    /\ removed = {}
    /\ errs = NoErrs
    /\ conn = NoConn
    /\ routed = NoRoute
    /\ mig = NoMig
    /\ reader = NoReader

\* a request arrives
ReceiveRequest(method, path) ==
    /\ routed.pc = "idle"
    /\ routed' = [pc |-> "received", method |-> method, path |-> path, handler |-> "none"]
    /\ UNCHANGED <<users, now, nextId, nreq, req, last, cand, out, query, fetched,
                   file, fop, removed, errs, conn, mig, reader>>

\* the app hands it to the first handler that takes it
DispatchRequest ==
    /\ routed.pc = "received"
    /\ routed' = [routed EXCEPT !.pc = "handled",
                                !.handler = AppDispatch(routed.method, routed.path)]
    /\ UNCHANGED <<users, now, nextId, nreq, req, last, cand, out, query, fetched,
                   file, fop, removed, errs, conn, mig, reader>>

NextD ==
    \/ \E method \in Methods, path \in Paths : ReceiveRequest(method, path)
    \/ DispatchRequest

SpecD == InitD /\ [][NextD]_vars

(***************************************************************************)
(* The migration of data.json into the table (migrateFromJSON)             *)
(***************************************************************************)
MaxFile == 3

\* records as the flat-file controller writes them: normalized, age a
\* number (0 from the body {age: "0"}), no uniqueness of email
FileUsers ==
    { FileUser(1, DataOf(Row1)),
      FileUser(2, [DataOf(Row2(0)) EXCEPT !.age = 0]),
      FileUser(3, [DataOf(Row2(0)) EXCEPT !.email = Row1.email]),
      FileUser(4, [DataOf(Row3) EXCEPT !.age = 295]) }

\* arrays of up to MaxFile different records
Files ==
    { f \in UNION { [1..n -> FileUsers] : n \in 0..MaxFile } :
        \A i \in 1..Len(f), j \in 1..Len(f) : f[i] = f[j] => i = j }

\* a table the service filled before the migration runs
TableBefore == { {}, {QRow(10, sDan, Row1.email, sLA.s, smale.s, 300, 0)} }

\* !user.id || !user.name || !user.email || !user.phone || !user.city ||
\* !user.gender || !user.age
MissingRequiredField(user) ==
    \/ user.id = 0
    \/ \E f \in {"name", "email", "phone", "city", "gender"} : user[f] = <<>>
    \/ user.age = 0

InitM ==
    /\ users \in TableBefore
    /\ now = 1
    /\ nextId = 1
    /\ nreq = 0
    /\ req = [p \in Procs |-> IdleReq]
    /\ last = IdleReq
    /\ cand = EmptyBody
    /\ out = NoOut
    /\ query = NoQuery
    /\ fetched = NoResult
    /\ file \in Files
    /\ fop = [p \in Procs |-> IdleCall]
    /\ removed = {}
    /\ errs = NoErrs
    /\ conn = NoConn
    /\ routed = NoRoute
    /\ mig = [NoMig EXCEPT !.pc = "start"]
    /\ reader = NoReader

\* `if (!Array.isArray(users) || users.length === 0) return`, else the loop
MigrateStart ==
    /\ mig.pc = "start"
    /\ mig' = [mig EXCEPT !.pc = IF Len(file) = 0 THEN "done" ELSE "lookup", !.i = 1]
    /\ UNCHANGED <<users, now, nextId, nreq, req, last, cand, out, query, fetched,
                   file, fop, removed, errs, conn, routed, reader>>

\* the next user, or the summary after the last one
Advance(m) ==
    [m EXCEPT !.i = @ + 1, !.pc = IF m.i + 1 > Len(file) THEN "done" ELSE "lookup"]

\* `await userRepository.getUserByEmail(user.email)` and the two skips
MigrateLookup ==
    /\ mig.pc = "lookup"
    /\ mig' = IF getUserByEmail(users, file[mig.i].email) # NoRow THEN Advance(mig)
              ELSE IF MissingRequiredField(file[mig.i]) THEN Advance(mig)
              ELSE [mig EXCEPT !.pc = "create"]
    /\ UNCHANGED <<users, now, nextId, nreq, req, last, cand, out, query, fetched,
                   file, fop, removed, errs, conn, routed, reader>>

\* what the loop does with the outcome of `await userRepository.createUser`:
\* migratedCount++ when it returned, errorCount++ in the catch when it threw
MigrateCounted(m, viol, result) ==
    IF viol = "" /\ AffectedRowsIsOne(result)
    THEN Advance([m EXCEPT !.migratedCount = @ + 1])
    ELSE Advance([m EXCEPT !.errorCount = @ + 1])

\* UserRepository.createUser for the user: the INSERT, then the test of
\* result.affectedRows
MigrateRow(row, viol) ==
    /\ users' = IF viol = "" THEN users \cup {row} ELSE users
    /\ mig' = MigrateCounted(mig, viol, ExecResult(1))

MigrateCreate ==
    /\ mig.pc = "create"
    /\ \E row \in { MakeRow(file[mig.i].id, file[mig.i], now, now) } :
          MigrateRow(row, InsertViolation(users, row))
    /\ UNCHANGED <<now, nextId, nreq, req, last, cand, out, query, fetched,
                   file, fop, removed, errs, conn, routed, reader>>

NextM == MigrateStart \/ MigrateLookup \/ MigrateCreate

SpecM == InitM /\ [][NextM]_vars

(***************************************************************************)
(* Properties                                                              *)
(***************************************************************************)
Answered(kind) == last.pc = "done" /\ last.kind = kind

\* a record that satisfies the data model: text fields non-blank, email of
\* the form local@domain.tld, gender in the enumeration whatever its case,
\* age a number or numeral with 0 <= age <= 150 and no fraction
ValidRecord(body) ==
    /\ \A f \in {"name", "email", "phone", "city", "gender"} :
          body[f].t = "string" /\ Trim(body[f].s) # <<>>
    /\ MatchesEmailPattern(body["email"].s)
    /\ ToLowerCase(body["gender"].s) \in Genders
    /\ body["age"].t \in {"number", "string"}
    /\ ~ToNumber(body["age"]).nan
    /\ ToNumber(body["age"]).x10 \in {10 * n : n \in MinAge..MaxAge}

\* a stored row in normal form: name, phone and city trimmed and non-empty,
\* email lower-case and of the form local@domain.tld, gender one of the
\* three lower-case values, age a whole number from 0 to 150
NormalizedRow(u) ==
    /\ \A f \in {"name", "phone", "city"} : u[f] # <<>> /\ Trim(u[f]) = u[f]
    /\ ToLowerCase(u.email) = u.email /\ MatchesEmailPattern(u.email)
    /\ u.gender \in Genders
    /\ u.age % 10 = 0 /\ u.age >= 10 * MinAge /\ u.age <= 10 * MaxAge

\* C1: in every reachable state of the table no two rows hold the same
\* email, whatever the interleaving of create, update and delete requests.
C1_EmailUnique == \A u \in users, v \in users : u.email = v.email => u = v

\* two requests raced for one email and the storage layer turned one down
C1_Witness ==
    /\ last.pc = "done" /\ last.dbErr = "SQLITE_CONSTRAINT_UNIQUE"
    /\ \E u \in users : SameEmailIgnoringCase(last.body, u)

\* C2 as stated: a create whose email equals, ignoring case, the email of
\* an existing row always ends with 409 and never executes the INSERT.
C2_DuplicateAlwaysConflict ==
    Answered("create") /\ last.taken => last.status = 409 /\ ~last.stmt

\* C2 amended: such a create never executes the INSERT and leaves the table
\* as it was; it ends with 409 when its body passes validation.
C2_DuplicateNeverInserted ==
    Answered("create") /\ last.taken =>
        /\ ~last.stmt /\ ~last.changed
        /\ last.passed => last.status = 409

\* a create answered 409 for an email stored in another case
C2_Witness ==
    /\ Answered("create") /\ last.taken /\ last.passed /\ last.status = 409
    /\ \E u \in users : SameEmailIgnoringCase(last.body, u) /\ u.email # last.body["email"].s

\* C3: a request whose INSERT / UPDATE the uniqueness constraint rejects
\* ends with 409, like a request the pre-check rejects.
C3_ConstraintViolationIsConflict ==
    last.pc = "done" /\ last.dbErr = "SQLITE_CONSTRAINT_UNIQUE" => last.status = 409

\* C4: a create of a valid record with a free email ends with 201 and the
\* record read back by the returned id equals the normalized input.
C4_CreateThenGetById ==
    Answered("create") /\ ValidRecord(last.body) /\ ~last.taken /\ last.dbErr = "" =>
        /\ last.status = 201
        /\ last.resp.id = last.id
        /\ DataOf(last.resp) =
              [name   |-> Trim(last.body["name"].s),
               email  |-> Trim(ToLowerCase(last.body["email"].s)),
               phone  |-> Trim(last.body["phone"].s),
               city   |-> Trim(last.body["city"].s),
               gender |-> ToLowerCase(last.body["gender"].s),
               age    |-> ToNumber(last.body["age"]).x10]

\* C5: an update for an id without a row ends with 404 and executes no
\* UPDATE, whatever the body.
C5_UpdateMissingIsNotFound ==
    Answered("update") /\ ~last.found =>
        last.status = 404 /\ ~last.stmt /\ ~last.changed

\* an update of a missing id, with a body that fails validation, answered 404
C5_Witness ==
    /\ Answered("update") /\ ~last.found /\ last.status = 404
    /\ ~validateUserData(last.body).isValid

\* C6: an update with a valid body whose email another row holds ends with
\* 409 and changes nothing; one whose email is the row's own succeeds with
\* 200 and the updated row.
C6_UpdateEmailConflictOrOwn ==
    Answered("update") /\ ValidRecord(last.body) =>
        /\ last.taken => last.status = 409 /\ ~last.changed
        /\ last.own /\ last.changed =>
              last.status = 200 /\ last.resp.id = last.id
              /\ last.resp.email = Trim(ToLowerCase(last.body["email"].s))

\* C7: the delete that removes the row of an existing id ends with 200, a
\* delete for an id whose row is gone ends with 404.
C7_DeleteThenNotFound ==
    Answered("delete") =>
        /\ last.found /\ last.changed => last.status = 200
        /\ ~last.found => last.status = 404 /\ ~last.stmt

\* C25: a create, update or delete that ends with 400, 404, 409 or 500 has
\* not changed the table, and a request whose statement changed the table
\* ends with a success status.
C25_FailureLeavesTable ==
    last.pc = "done" /\ last.kind \in {"create", "update", "delete"} =>
        /\ last.status \in {400, 404, 409, 500} => ~last.changed
        /\ last.changed => last.status \in {200, 201}

(***************************************************************************)
(* Properties of the validator (SpecV)                                     *)
(***************************************************************************)
Validated == out.kind # "none"

OtherwiseValid(body) ==
    /\ \A f \in {"name", "email", "phone", "city"} :
          body[f].t = "string" /\ Trim(body[f].s) # <<>>
    /\ MatchesEmailPattern(body["email"].s)

\* C8: with the other fields valid, age 0 (a number) and age 150 are
\* accepted, age -1 and age 151 rejected, gender "MALE" accepted as "male"
\* and gender "unknown" rejected.
C8_Boundaries ==
    Validated /\ OtherwiseValid(cand) =>
        /\ cand["gender"] = sMALE /\ cand["age"] \in {Num(0), Num(150)} =>
              /\ out.kind = "record"
              /\ out.data.gender = <<"m","a","l","e">>
              /\ out.data.age = cand["age"].x10
        /\ cand["gender"] = sMALE /\ cand["age"] \in {Num(0 - 1), Num(151)} =>
              out.kind = "errors"
        /\ cand["gender"] = sUnknown /\ cand["age"] = Num(150) =>
              out.kind = "errors"

\* C9: validation followed by normalization yields a normalized record or
\* a non-empty list of errors answered with 400; it never throws and never
\* ends in 500.
C9_RecordOrErrors ==
    Validated =>
        /\ out.status # 500
        /\ \/ out.kind = "record"
           \/ out.kind = "errors" /\ out.status = 400 /\ out.validation.errors # <<>>

\* the rules of the validator, each on its own
Absent(v) == v.t \in {"undefined", "null"}

RuleRequired(body, f) ==
    Absent(body[f]) \/ (body[f].t = "string" /\ Trim(body[f].s) = <<>>)

RuleEmail(body) ==
    ~RuleRequired(body, "email") /\ ~MatchesEmailPattern(JsToString(body["email"]))

RuleAge(body) ==
    /\ ~RuleRequired(body, "age")
    /\ \/ ToNumber(body["age"]).nan
       \/ ToNumber(body["age"]).x10 < 10 * MinAge
       \/ ToNumber(body["age"]).x10 > 10 * MaxAge

RuleGender(body) ==
    /\ ~RuleRequired(body, "gender")
    /\ ~(body["gender"].t = "string" /\ ToLowerCase(body["gender"].s) \in Genders)

Reports(errors, message) == \E i \in 1..Len(errors) : errors[i] = message

\* C10: the list the validator returns holds an error for each violated
\* rule, whatever other rules are violated, and is empty exactly when no
\* rule is violated.
C10_EveryRuleReported ==
    Validated /\ ~out.validation.threw =>
        /\ \A f \in FieldSet :
              RuleRequired(cand, f) => Reports(out.validation.errors, f \o " is required")
        /\ RuleEmail(cand) => Reports(out.validation.errors, "Invalid email format")
        /\ RuleAge(cand) =>
              Reports(out.validation.errors, "Age must be a valid number between 0 and 150")
        /\ RuleGender(cand) =>
              Reports(out.validation.errors, "Gender must be male, female, or other")
        /\ (out.validation.errors = <<>>) <=>
              ~(\/ \E f \in FieldSet : RuleRequired(cand, f)
                \/ RuleEmail(cand) \/ RuleAge(cand) \/ RuleGender(cand))

\* C11: every row a create or update wrote is in normal form, and a request
\* whose body fails validation executes no statement and changes nothing.
C11_RowsNormalized ==
    /\ \A u \in users : NormalizedRow(u)
    /\ last.pc = "done" /\ last.kind \in {"create", "update"} /\ ~last.passed =>
          ~last.stmt /\ ~last.changed

C15_UpdateReturnsRefreshed ==
    Answered("update") /\ last.stmt /\ last.dbErr = "" =>
        /\ last.changed =>
              /\ last.status = 200
              /\ last.resp.id = last.id /\ DataOf(last.resp) = last.data
        /\ ~last.changed => last.status = 404

\* C16: of two deletes that both found the row of one id, the one whose
\* DELETE removed the row answers 200 and the one whose DELETE found it
\* gone answers 404; neither answers 500.
C16_ConcurrentDeletes ==
    Answered("delete") /\ last.found /\ last.stmt =>
        /\ last.status # 500
        /\ last.changed => last.status = 200
        /\ ~last.changed => last.status = 404

\* the row of an id before and after a step
SameRecord(u, v) == u.id = v.id

\* C17: every row has updated_at >= created_at; created_at is set when the
\* row is inserted and never changes; an update that changed the row
\* leaves its updated_at at the time of the update.
C17_Timestamps ==
    /\ [](\A u \in users : u.updated_at >= u.created_at)
    /\ [][ /\ \A u \in users, v \in users' :
                SameRecord(u, v) =>
                    v.created_at = u.created_at /\ (v # u => v.updated_at = now)
           /\ \A v \in users' :
                (\A u \in users : ~SameRecord(u, v)) => v.created_at = now
           /\ last' # last /\ last'.kind = "update" /\ last'.changed =>
                getUserById(users', last'.id).updated_at = now ]_vars

\* a row updated after the clock moved on from its creation
C17_Witness ==
    /\ Answered("update") /\ last.changed
    /\ \E u \in users : u.id = last.id /\ u.updated_at > u.created_at

\* C19: an update for an id without a row, with a body that fails
\* validation, is answered 404 'User not found' and not 400 with the
\* validation errors; no UPDATE is executed.
C19_NotFoundBeforeValidation ==
    Answered("update") /\ ~last.found /\ ~validateUserData(last.body).isValid =>
        /\ last.status = 404 /\ last.status # 400
        /\ last.message = "User not found" /\ last.errors = <<>>
        /\ ~last.stmt

\* such an update, for the id of a row that was deleted, with an age out
\* of range
C19_Witness ==
    /\ Answered("update") /\ ~last.found /\ last.status = 404
    /\ last.id > 0 /\ last.id < nextId
    /\ Reports(validateUserData(last.body).errors,
               "Age must be a valid number between 0 and 150")

(***************************************************************************)
(* Properties of the read side (SpecQ)                                     *)
(***************************************************************************)
Present(v) == v.t # "undefined"

\* t occurs in x as a substring, letters compared without case
ContainsIgnoringCase(x, t) ==
    \E i \in 0..(Len(x) - Len(t)) :
        ToLowerCase(SubSeq(x, i + 1, i + Len(t))) = ToLowerCase(t)

\* the record matches every supplied filter
MatchesEveryFilter(u, q) ==
    /\ Present(q.city) => u.city = q.city.s
    /\ Present(q.gender) => u.gender = q.gender.s
    /\ Present(q.search) => \/ ContainsIgnoringCase(u.name, q.search.s)
                            \/ ContainsIgnoringCase(u.email, q.search.s)

\* positions O+1 .. O+L of the matching records, most recent first
ExpectedPage(tbl, q) ==
    LimitOffset(OrderByCreatedAtDesc({u \in tbl : MatchesEveryFilter(u, q)}),
                IF Present(q.limit) THEN q.limit.x10 \div 10 ELSE Cardinality(tbl),
                IF Present(q.offset) THEN q.offset.x10 \div 10 ELSE 0)

\* C13: list returns a result for every combination of present and absent
\* limit and offset, and the result is exactly the records matching every
\* supplied filter, most recent first, cut to positions O+1 .. O+L.
C13_ListFilteredOrderedPaged ==
    fetched.list.done =>
        /\ fetched.list.ok
        /\ fetched.list.rows = ExpectedPage(users, query)
        /\ \A i \in 1..(Len(fetched.list.rows) - 1) :
              fetched.list.rows[i].created_at >= fetched.list.rows[i + 1].created_at

\* the call sets the search filter and nothing else
OnlySearch(q) ==
    /\ q.search.t = "string"
    /\ q.city = Undefined /\ q.gender = Undefined
    /\ q.limit = Undefined /\ q.offset = Undefined

\* C14: on one table, search(term) returns the sequence of records that
\* list returns when called with the search filter set to term and no
\* city, gender, limit or offset.
C14_SearchIsListWithSearch ==
    fetched.search.done /\ fetched.list.done /\ OnlySearch(query) =>
        fetched.search = fetched.list

\* a term that selects some rows and not others, two of them created at
\* the same time
C14_Witness ==
    /\ fetched.search.done /\ fetched.list.done /\ OnlySearch(query)
    /\ fetched.search.ok /\ Len(fetched.search.rows) = 2
    /\ Cardinality(users) = 4
    /\ fetched.search.rows[1].created_at = fetched.search.rows[2].created_at

\* the call sets no search, limit or offset
OnlyCityGender(q) ==
    q.search = Undefined /\ q.limit = Undefined /\ q.offset = Undefined

\* C20: on one table, count(filters) equals the length of list called with
\* the same city and gender filters and no search, limit or offset.
C20_CountIsLengthOfList ==
    fetched.count.done /\ fetched.list.done /\ OnlyCityGender(query) =>
        fetched.list.ok /\ fetched.count.n = Len(fetched.list.rows)

\* both filters set, each leaving out a row the other keeps
C20_Witness ==
    /\ fetched.count.done /\ fetched.list.done /\ OnlyCityGender(query)
    /\ query.city = sNYC /\ query.gender = smale
    /\ Cardinality(users) = 4 /\ fetched.count.n = 2

(***************************************************************************)
(* Properties of the flat-file store (SpecF)                               *)
(***************************************************************************)
\* the record of an id in the array, NoFileUser when it has none
RecordOf(arr, id) == IF FindIndex(arr, id) = 0 THEN NoFileUser ELSE arr[FindIndex(arr, id)]

\* C18: an update changes only its target: the target keeps its id, every
\* other record is after the update what it was before it, and so no
\* record of a deleted id comes back.
C18_UpdateChangesOnlyTarget ==
    [][ \A p \in Procs :
          fop[p].pc = "write" /\ fop[p].kind = "update" /\ fop'[p].pc = "idle" =>
              /\ RecordOf(file', fop[p].id).id = fop[p].id
              /\ \A id \in 1..(nextId - 1) :
                    id # fop[p].id => RecordOf(file', id) = RecordOf(file, id) ]_vars

(***************************************************************************)
(* Properties of the error responses (SpecE)                               *)
(***************************************************************************)
\* C21: outside development, two requests that fail with a storage error
\* receive the same response body, whatever the details of their errors.
C21_GenericStorageError ==
    errs.env # "development" =>
        \A i \in 1..Len(errs.sent), j \in 1..Len(errs.sent) :
            errs.sent[i].source = "storage" /\ errs.sent[j].source = "storage" =>
                errs.sent[i].body = errs.sent[j].body

(***************************************************************************)
(* Properties of the shared connection (SpecC)                             *)
(***************************************************************************)
\* C22: the connection is opened on the first query and not before, at
\* most once whatever the number of concurrent first queries, and once the
\* process has exited on SIGTERM / SIGINT it has been closed exactly once.
C22_ConnectionLifecycle ==
    /\ conn.nq = 0 => conn.opens = 0 /\ conn.db = "null"
    /\ conn.opens <= 1
    /\ conn.proc = "exited" /\ conn.opens > 0 => conn.closes = 1

\* C29: getDatabase resolves only with a connection whose open succeeded;
\* when the open fails the stored handle is left unset, so that a later
\* call opens the database again.
C29_GetDatabaseResolvesOpen ==
    /\ conn.db # "failed"
    /\ \A p \in Procs : conn.call[p] = "resolved" => conn.db = "open"

(***************************************************************************)
(* Properties of stats (SpecQ)                                             *)
(***************************************************************************)
\* one entry per distinct value of field f, with the number of records that
\* have it, in non-increasing order of count
CountsPerValue(list, tbl, f) ==
    /\ \A k \in {u[f] : u \in tbl} :
          \E i \in 1..Len(list) :
              /\ list[i].key = k
              /\ list[i].count = Cardinality({u \in tbl : u[f] = k})
              /\ \A j \in 1..Len(list) : list[j].key = k => j = i
    /\ \A i \in 1..Len(list) : \E u \in tbl : u[f] = list[i].key
    /\ \A i \in 1..(Len(list) - 1) : list[i].count >= list[i + 1].count

\* C23: on a fixed table stats returns the number of records, the counts
\* per city and per gender in non-increasing order of count, and the
\* minimum, maximum and average age over all records.
C23_Stats ==
    fetched.stats.done =>
        /\ fetched.stats.userCount = Cardinality(users)
        /\ CountsPerValue(fetched.stats.cityStats, users, "city")
        /\ CountsPerValue(fetched.stats.genderStats, users, "gender")
        /\ users # {} =>
              /\ \E u \in users : u.age = fetched.stats.ageStats.minAge
              /\ \E u \in users : u.age = fetched.stats.ageStats.maxAge
              /\ \A u \in users : /\ fetched.stats.ageStats.minAge <= u.age
                                   /\ u.age <= fetched.stats.ageStats.maxAge
              /\ fetched.stats.ageStats.avgAge.n = Cardinality(users)
              /\ fetched.stats.ageStats.avgAge.sum = SumAge(users)

\* four records, three in one city and one in another
C23_Witness ==
    /\ fetched.stats.done /\ fetched.stats.userCount = 4
    /\ Len(fetched.stats.cityStats) = 2
    /\ fetched.stats.cityStats[1].count = 3 /\ fetched.stats.cityStats[2].count = 1
    /\ fetched.stats.ageStats.minAge < fetched.stats.ageStats.maxAge

(***************************************************************************)
(* Properties of the migration (SpecM)                                     *)
(***************************************************************************)
\* the user has a value for each of the required fields
HasAllRequiredFields(user) ==
    /\ user.id # 0
    /\ \A f \in {"name", "email", "phone", "city", "gender"} : user[f] # <<>>
    /\ user.age \in 0..(10 * MaxAge)

\* C24: when the migration has ended, each user of the file that has all
\* required fields is in the table, or was skipped because the table held
\* its email already; a duplicate ends no migration early.
C24_MigratesAllButDuplicates ==
    mig.pc = "done" =>
        /\ mig.i = Len(file) + 1
        /\ \A i \in 1..Len(file) :
              HasAllRequiredFields(file[i]) => \E u \in users : u.email = file[i].email

\* C28: once every call has returned, the file holds a record for every id
\* an addUser wrote and no deleteUser removed: no write is lost.
C28_NoLostWrite ==
    (\A p \in Procs : fop[p].pc = "idle") =>
        \A id \in 1..(nextId - 1) : id \notin removed => FindIndex(file, id) # 0

(***************************************************************************)
(* Properties of reading requests among writing ones (SpecR)               *)
(***************************************************************************)
RECURSIVE SumCounts(_)
SumCounts(list) == IF list = <<>> THEN 0 ELSE Head(list).count + SumCounts(Tail(list))

\* C26: in every 200 response of GET /users, whatever other requests ran
\* between its queries, pagination.count <= pagination.total.
C26_CountAtMostTotal ==
    reader.pc = "done" /\ reader.kind = "list" /\ reader.status = 200 =>
        Len(reader.list.rows) <= reader.total

\* C27: in every stats response, whatever other requests ran between its
\* queries, userCount is the sum of the counts of cityStats and the sum of
\* the counts of genderStats.
C27_StatsSumsAgree ==
    reader.pc = "done" /\ reader.kind = "stats" =>
        /\ reader.stats.userCount = SumCounts(reader.stats.cityStats)
        /\ reader.stats.userCount = SumCounts(reader.stats.genderStats)

(***************************************************************************)
(* Properties of the dispatch (SpecD)                                      *)
(***************************************************************************)
\* the request is GET /users followed by the given segments
GetUsersPath(rest) ==
    /\ routed.pc = "handled" /\ routed.method = "GET"
    /\ routed.path # <<>> /\ Head(routed.path) = segUsers
    /\ Tail(routed.path) = rest

\* C30: GET /users/search, /users/stats, /users/city/:city and
\* /users/gender/:gender are each answered by their own handler, never by
\* the handler of /users/:id.
C30_NamedRoutesBeforeId ==
    /\ GetUsersPath(<<segSearch>>) => routed.handler = "searchUsers"
    /\ GetUsersPath(<<segStats>>) => routed.handler = "getStats"
    /\ \A seg \in Segments :
          /\ GetUsersPath(<<segCity, seg>>) => routed.handler = "getUsersByCity"
          /\ GetUsersPath(<<segGender, seg>>) => routed.handler = "getUsersByGender"

\* GET /users/search was dispatched
C30_Witness ==
    GetUsersPath(<<segSearch>>) /\ routed.handler = "searchUsers"

====
